---- MODULE Spec2Model ----
(***************************************************************************)
(* Auditory looming test: the tracking loop of main.py, the background     *)
(* audio worker (play_sound) and the stimulus audio worker (trigger_stim), *)
(* coordinated through the two multiprocessing events play_stim and        *)
(* end_stream.                                                             *)
(***************************************************************************)
EXTENDS Integers, Sequences, FiniteSets, TLC

\* Largest number of frames the frame loop processes in a run.
MaxFrames == 6

\* Python values of the loop variables in_roi and prev_state.
Unassigned == "unassigned"
PyTrue == "True"
PyFalse == "False"

\* Largest coordinate of a rectangle corner and largest side length when
\* point_inside is checked on its own.
MaxCoord == 2

\* Longest operator input when stim.calibrate is checked on its own.
MaxInputLen == 3

\* Trigger regions the operator can select, as (x, y, w, h).
Rects == { <<1, 1, 2, 2>> }

\* Bounding boxes the tracker can report, as (x, y, w, h): their centroids
\* are (0,0) strictly outside, (2,2) strictly inside, (1,2) on the boundary.
Boxes == { <<0, 0, 1, 1>>, <<1, 1, 2, 2>>, <<0, 1, 2, 3>> }

VARIABLES
  mpc,          \* position of the main process
  cap,          \* video source: "none", "open", "released"
  outputVid,    \* output writer: "none", "open", "released"
  csv_file,     \* centroid.csv handle: "none", "open", "closed"
  csv,          \* records written to centroid.csv
  calibrated,   \* number of stim.calibrate calls that have returned
  tracker_init, \* tracker.init has been called
  rect,         \* trigger region, or <<>> for None
  exhausted,    \* cap.read() has returned ret = False
  in_roi,       \* main.py variable in_roi
  prev_state,   \* main.py variable prev_state
  exc,          \* uncaught exception of the main process, or "none"
  frames,       \* per frame of the loop: tracker outcome and whether play_stim.set() ran
  play_stim,    \* multiprocessing.Event
  end_stream,   \* multiprocessing.Event
  spc,          \* position of the stimulus worker (trigger_stim)
  stim_stream,  \* the stimulus worker holds an open output stream
  stim_p,       \* the stimulus worker holds a PyAudio instance
  bpc,          \* position of the background worker (play_sound)
  cont_stream,  \* the background worker holds an open output stream
  cont_p,       \* the background worker holds a PyAudio instance
  playbacks,    \* stimulus writes started
  completed,    \* stimulus writes that returned
  freshSets,    \* play_stim.set() calls that found the event clear
  setsInWrite,  \* play_stim.set() calls during the current or last stimulus write
  pend,         \* where the latest set() not yet followed by a write start was made
  cleared,      \* play_stim.clear() calls made by the stimulus worker
  pt_call,      \* one call of point_inside: its arguments and its result
  cal           \* one call of stim.calibrate: its position, its argument and its amplitude

vars == << mpc, cap, outputVid, csv_file, csv, calibrated, tracker_init, rect,
           exhausted, in_roi, prev_state, exc, frames, play_stim, end_stream,
           spc, stim_stream, stim_p, bpc, cont_stream, cont_p,
           playbacks, completed, freshSets, setsInWrite, pend, cleared,
           pt_call, cal >>

mainVars == << mpc, cap, outputVid, csv_file, csv, calibrated, tracker_init,
               rect, exhausted, in_roi, prev_state, exc, frames >>
stimVars == << spc, stim_stream, stim_p >>
bgVars == << bpc, cont_stream, cont_p >>
ghostVars == << playbacks, completed, freshSets, setsInWrite, pend, cleared >>
fnVars == << pt_call, cal >>
progVars == << mainVars, play_stim, end_stream, stimVars, bgVars, ghostVars >>

None == << >>

----------------------------------------------------------------------------
\* Pure functions of main.py

\* cv.pointPolygonTest(corners of rect, point, measureDist = False):
\* +1 strictly inside, 0 on an edge, -1 outside.
pointPolygonTest(r, pt) ==
  IF r[1] < pt[1] /\ pt[1] < r[1] + r[3] /\ r[2] < pt[2] /\ pt[2] < r[2] + r[4]
  THEN 1
  ELSE IF r[1] <= pt[1] /\ pt[1] <= r[1] + r[3] /\ r[2] <= pt[2] /\ pt[2] <= r[2] + r[4]
       THEN 0
       ELSE -1

\* Variant that counts only the interior.
point_inside_strict(r, pt) == pointPolygonTest(r, pt) > 0

point_inside(r, pt) == pointPolygonTest(r, pt) >= 0

\* center = (int(roi[0] + roi[2] / 2), int(roi[1] + roi[3] / 2))
Center(roi) == << (2 * roi[1] + roi[3]) \div 2, (2 * roi[2] + roi[4]) \div 2 >>

\* str(bool)
PyStr(b) == IF b THEN PyTrue ELSE PyFalse

\* Variant in which a failed tracker update resets in_roi.
TrackState_resetOnFail(success, inside, old) ==
  IF success THEN PyStr(inside) ELSE PyFalse

\* in_roi after tracker.update: assigned from point_inside under
\* "if success:", left as it was otherwise.
TrackState(success, inside, old) ==
  IF success THEN PyStr(inside) ELSE old

\* Variant that writes a record whether or not the update succeeded.
CsvWrite_always(records, success, center, cur) ==
  Append(records, << center[1], center[2], cur >>)

\* csv.write(str(center[0]) + "," + str(center[1]) + "," + str(in_roi) + "\n")
\* under "if success:".
CsvWrite(records, success, center, cur) ==
  IF success
  THEN Append(records, << center[1], center[2], cur >>)
  ELSE records

\* Which name the test "in_roi and in_roi != prev_state" finds unbound.
EdgeNameError(cur, prev) ==
  IF cur = Unassigned THEN "in_roi"
  ELSE IF cur = PyTrue /\ prev = Unassigned THEN "prev_state"
  ELSE "none"

\* Level-triggered variant: the comparison with prev_state is left out.
EdgeTest_level(cur, prev) == cur = PyTrue

\* The test "in_roi and in_roi != prev_state" on bound names.
EdgeTest(cur, prev) == cur = PyTrue /\ cur # prev

\* Variant of set() that flips the flag.
EventSet_toggle(e) == ~e

\* Variant of clear() that leaves the flag as it is.
EventClear_noop(e) == e

\* multiprocessing.Event.set()
EventSet(e) == TRUE

\* multiprocessing.Event.clear()
EventClear(e) == FALSE

\* Where a set() falls relative to the stimulus worker's write.
PendAfterSet(p, s) ==
  IF s = "write" THEN p
  ELSE IF s \in {"close", "clear"} THEN "afterwrite"
  ELSE "idle"

----------------------------------------------------------------------------
ProgInit ==
  /\ mpc = "argv"
  /\ cap = "none" /\ outputVid = "none" /\ csv_file = "none"
  /\ csv = << >>
  /\ calibrated = 0
  /\ tracker_init = FALSE
  /\ rect = None
  /\ exhausted = FALSE
  /\ in_roi = Unassigned /\ prev_state = Unassigned
  /\ exc = "none"
  /\ frames = << >>
  /\ play_stim = FALSE /\ end_stream = FALSE
  /\ spc = "unstarted" /\ stim_stream = FALSE /\ stim_p = FALSE
  /\ bpc = "unstarted" /\ cont_stream = FALSE /\ cont_p = FALSE
  /\ playbacks = 0 /\ completed = 0 /\ freshSets = 0 /\ setsInWrite = 0
  /\ pend = "none"
  /\ cleared = 0

\* No call of point_inside or stim.calibrate is being followed.
NoPointCall == [rect |-> None, point |-> None, out |-> "none"]
NoCalibrate == [pc |-> "idle", init |-> None, amplitude |-> None]

Init ==
  /\ ProgInit
  /\ pt_call = NoPointCall
  /\ cal = NoCalibrate

----------------------------------------------------------------------------
\* Main process: startup

\* len(sys.argv) < 2: print usage and exit
CheckArgs ==
  /\ mpc = "argv"
  /\ UNCHANGED fnVars
  /\ \E argc \in 1..2 : mpc' = IF argc < 2 THEN "exited" ELSE "open_cap"
  /\ UNCHANGED << cap, outputVid, csv_file, csv, calibrated, tracker_init, rect,
                  exhausted, in_roi, prev_state, exc, frames >>
  /\ UNCHANGED << play_stim, end_stream, stimVars, bgVars, ghostVars >>

\* cap = cv.VideoCapture(video); exit if not cap.isOpened()
OpenCap ==
  /\ mpc = "open_cap"
  /\ UNCHANGED fnVars
  /\ \E ok \in BOOLEAN :
       /\ cap' = IF ok THEN "open" ELSE "none"
       /\ mpc' = IF ok THEN "open_writer" ELSE "exited"
  /\ UNCHANGED << outputVid, csv_file, csv, calibrated, tracker_init, rect,
                  exhausted, in_roi, prev_state, exc, frames >>
  /\ UNCHANGED << play_stim, end_stream, stimVars, bgVars, ghostVars >>

\* Variant without the exit when the writer could not be opened.
OpenWriter_noExit ==
  /\ mpc = "open_writer"
  /\ UNCHANGED fnVars
  /\ \E ok \in BOOLEAN :
       /\ outputVid' = IF ok THEN "open" ELSE "none"
       /\ mpc' = "calibrate"
  /\ UNCHANGED << cap, csv_file, csv, calibrated, tracker_init, rect,
                  exhausted, in_roi, prev_state, exc, frames >>
  /\ UNCHANGED << play_stim, end_stream, stimVars, bgVars, ghostVars >>

\* outputVid = cv.VideoWriter(...); exit if not outputVid.isOpened()
OpenWriter ==
  /\ mpc = "open_writer"
  /\ UNCHANGED fnVars
  /\ \E ok \in BOOLEAN :
       /\ outputVid' = IF ok THEN "open" ELSE "none"
       /\ mpc' = IF ok THEN "calibrate" ELSE "exited"
  /\ UNCHANGED << cap, csv_file, csv, calibrated, tracker_init, rect,
                  exhausted, in_roi, prev_state, exc, frames >>
  /\ UNCHANGED << play_stim, end_stream, stimVars, bgVars, ghostVars >>

\* min_amp = stim.calibrate(base_amp); max_amp = stim.calibrate(0.7);
\* after the second, the buffers are built, the tracker is created and
\* centroid.csv is opened
Calibrate ==
  /\ mpc = "calibrate"
  /\ UNCHANGED fnVars
  /\ calibrated' = calibrated + 1
  /\ mpc' = IF calibrated' = 2 THEN "select_roi" ELSE "calibrate"
  /\ csv_file' = IF calibrated' = 2 THEN "open" ELSE csv_file
  /\ UNCHANGED << cap, outputVid, csv, tracker_init, rect,
                  exhausted, in_roi, prev_state, exc, frames >>
  /\ UNCHANGED << play_stim, end_stream, stimVars, bgVars, ghostVars >>

\* while roi is None: read a frame; break if not ret; selectROI; tracker.init
SelectROI ==
  /\ mpc = "select_roi"
  /\ UNCHANGED fnVars
  /\ \E ret \in BOOLEAN :
       /\ tracker_init' = ret
       /\ exhausted' = ~ret
  /\ mpc' = "select_rect"
  /\ UNCHANGED << cap, outputVid, csv_file, csv, calibrated, rect,
                  in_roi, prev_state, exc, frames >>
  /\ UNCHANGED << play_stim, end_stream, stimVars, bgVars, ghostVars >>

\* while rect is None: read a frame; break if not ret; rect = selectROI
SelectRect ==
  /\ mpc = "select_rect"
  /\ UNCHANGED fnVars
  /\ \E ret \in (IF exhausted THEN {FALSE} ELSE BOOLEAN) :
       IF ret
       THEN \E r \in Rects : rect' = r /\ exhausted' = exhausted
       ELSE rect' = rect /\ exhausted' = TRUE
  /\ mpc' = "start_workers"
  /\ UNCHANGED << cap, outputVid, csv_file, csv, calibrated, tracker_init,
                  in_roi, prev_state, exc, frames >>
  /\ UNCHANGED << play_stim, end_stream, stimVars, bgVars, ghostVars >>

\* the two events are created, both processes are started, centroid.csv is
\* opened again
StartWorkers ==
  /\ mpc = "start_workers"
  /\ UNCHANGED fnVars
  /\ play_stim' = FALSE /\ end_stream' = FALSE
  /\ spc' = "init" /\ bpc' = "init"
  /\ csv_file' = "open" /\ csv' = << >>
  /\ mpc' = "read"
  /\ UNCHANGED << cap, outputVid, calibrated, tracker_init, rect,
                  exhausted, in_roi, prev_state, exc, frames >>
  /\ UNCHANGED << stim_stream, stim_p, cont_stream, cont_p, ghostVars >>

----------------------------------------------------------------------------
\* Main process: frame loop

\* ret, frame = cap.read(); if not ret: break
ReadFail ==
  /\ mpc = "read"
  /\ UNCHANGED fnVars
  /\ exhausted' = TRUE
  /\ mpc' = "release"
  /\ UNCHANGED << cap, outputVid, csv_file, csv, calibrated, tracker_init, rect,
                  in_roi, prev_state, exc, frames >>
  /\ UNCHANGED << play_stim, end_stream, stimVars, bgVars, ghostVars >>

\* One frame read successfully: tracker.update, point_inside and the csv
\* record on success, the edge test with play_stim.set(), prev_state = in_roi,
\* imshow and outputVid.write.
Frame ==
  /\ mpc = "read"
  /\ UNCHANGED fnVars
  /\ ~exhausted
  /\ Len(frames) < MaxFrames
  /\ \E success \in BOOLEAN, roi \in Boxes :
       LET center == Center(roi)
           cur == TrackState(success, point_inside(rect, center), in_roi)
           err == EdgeNameError(cur, prev_state)
           trig == err = "none" /\ EdgeTest(cur, prev_state)
       IN /\ in_roi' = cur
          /\ csv' = CsvWrite(csv, success, center, cur)
          /\ frames' = Append(frames,
                              [res |-> IF success THEN cur ELSE "fail", trig |-> trig])
          /\ exc' = IF err = "none" THEN exc ELSE "NameError: " \o err
          /\ mpc' = IF err = "none" THEN "waitkey" ELSE "crashed"
          /\ prev_state' = IF err = "none" THEN cur ELSE prev_state
          /\ play_stim' = IF trig THEN EventSet(play_stim) ELSE play_stim
          /\ freshSets' = IF trig /\ ~play_stim THEN freshSets + 1 ELSE freshSets
          /\ setsInWrite' = IF trig /\ spc = "write" THEN setsInWrite + 1 ELSE setsInWrite
          /\ pend' = IF trig THEN PendAfterSet(pend, spc) ELSE pend
  /\ UNCHANGED << cap, outputVid, csv_file, calibrated, tracker_init, rect, exhausted >>
  /\ UNCHANGED << end_stream, stimVars, bgVars, playbacks, completed, cleared >>

\* Variant in which the loop resets the trigger after each frame.
WaitKey_clearsTrigger ==
  /\ mpc = "waitkey"
  /\ UNCHANGED fnVars
  /\ \E esc \in BOOLEAN :
       /\ end_stream' = IF esc THEN EventSet(end_stream) ELSE end_stream
       /\ mpc' = IF esc THEN "release" ELSE "read"
  /\ play_stim' = EventClear(play_stim)
  /\ UNCHANGED << cap, outputVid, csv_file, csv, calibrated, tracker_init, rect,
                  exhausted, in_roi, prev_state, exc, frames >>
  /\ UNCHANGED << stimVars, bgVars, ghostVars >>

\* if cv.waitKey(1) == 27: end_stream.set(); break
WaitKey ==
  /\ mpc = "waitkey"
  /\ UNCHANGED fnVars
  /\ \E esc \in BOOLEAN :
       /\ end_stream' = IF esc THEN EventSet(end_stream) ELSE end_stream
       /\ mpc' = IF esc THEN "release" ELSE "read"
  /\ UNCHANGED << cap, outputVid, csv_file, csv, calibrated, tracker_init, rect,
                  exhausted, in_roi, prev_state, exc, frames >>
  /\ UNCHANGED << play_stim, stimVars, bgVars, ghostVars >>

\* cap.release(); outputVid.release(); cv.destroyAllWindows(); csv.close()
Release ==
  /\ mpc = "release"
  /\ UNCHANGED fnVars
  /\ cap' = "released" /\ outputVid' = "released" /\ csv_file' = "closed"
  /\ mpc' = "terminate_stim"
  /\ UNCHANGED << csv, calibrated, tracker_init, rect,
                  exhausted, in_roi, prev_state, exc, frames >>
  /\ UNCHANGED << play_stim, end_stream, stimVars, bgVars, ghostVars >>

\* stim_thread.terminate(): SIGTERM to the worker wherever it is
TerminateStim ==
  /\ mpc = "terminate_stim"
  /\ UNCHANGED fnVars
  /\ spc' = IF spc = "done" THEN spc ELSE "killed"
  /\ mpc' = "terminate_sound"
  /\ UNCHANGED << cap, outputVid, csv_file, csv, calibrated, tracker_init, rect,
                  exhausted, in_roi, prev_state, exc, frames >>
  /\ UNCHANGED << play_stim, end_stream, stim_stream, stim_p, bgVars, ghostVars >>

\* sound_thread.terminate(); print("Finished tracking video")
TerminateSound ==
  /\ mpc = "terminate_sound"
  /\ UNCHANGED fnVars
  /\ bpc' = IF bpc = "done" THEN bpc ELSE "killed"
  /\ mpc' = "finished"
  /\ UNCHANGED << cap, outputVid, csv_file, csv, calibrated, tracker_init, rect,
                  exhausted, in_roi, prev_state, exc, frames >>
  /\ UNCHANGED << play_stim, end_stream, stimVars, cont_stream, cont_p, ghostVars >>

----------------------------------------------------------------------------
\* Stimulus worker: trigger_stim

\* p = pyaudio.PyAudio()
StimInit ==
  /\ spc = "init"
  /\ UNCHANGED fnVars
  /\ stim_p' = TRUE
  /\ spc' = "wait"
  /\ UNCHANGED << mainVars, play_stim, end_stream, stim_stream, bgVars, ghostVars >>

\* Variant in which wait() consumes the event on wake-up (auto-reset).
StimWait_autoreset ==
  /\ spc = "wait"
  /\ UNCHANGED fnVars
  /\ play_stim
  /\ play_stim' = FALSE
  /\ spc' = "open"
  /\ UNCHANGED << mainVars, end_stream, stim_stream, stim_p, bgVars, ghostVars >>

\* play_stim.wait() returns once the event is set
StimWait ==
  /\ spc = "wait"
  /\ UNCHANGED fnVars
  /\ play_stim
  /\ spc' = "open"
  /\ UNCHANGED << mainVars, play_stim, end_stream, stim_stream, stim_p, bgVars, ghostVars >>

\* stim_stream = p.open(...); stim_stream.write(wave) begins
StimOpenWrite ==
  /\ spc = "open"
  /\ UNCHANGED fnVars
  /\ stim_stream' = TRUE
  /\ spc' = "write"
  /\ playbacks' = playbacks + 1
  /\ setsInWrite' = 0
  /\ pend' = "none"
  /\ UNCHANGED << mainVars, play_stim, end_stream, stim_p, bgVars, completed, freshSets, cleared >>

\* stim_stream.write(wave) returns
StimWriteDone ==
  /\ spc = "write"
  /\ UNCHANGED fnVars
  /\ completed' = completed + 1
  /\ spc' = "close"
  /\ UNCHANGED << mainVars, play_stim, end_stream, stim_stream, stim_p, bgVars,
                  playbacks, freshSets, setsInWrite, pend, cleared >>

\* stim_stream.close()
StimClose ==
  /\ spc = "close"
  /\ UNCHANGED fnVars
  /\ stim_stream' = FALSE
  /\ spc' = "clear"
  /\ UNCHANGED << mainVars, play_stim, end_stream, stim_p, bgVars, ghostVars >>

\* Variant that clears the other event.
StimClear_wrongEvent ==
  /\ spc = "clear"
  /\ UNCHANGED fnVars
  /\ end_stream' = EventClear(end_stream)
  /\ cleared' = cleared + 1
  /\ spc' = "check"
  /\ UNCHANGED << mainVars, play_stim, stim_stream, stim_p, bgVars >>
  /\ UNCHANGED << playbacks, completed, freshSets, setsInWrite, pend >>

\* play_stim.clear()
StimClear ==
  /\ spc = "clear"
  /\ UNCHANGED fnVars
  /\ play_stim' = EventClear(play_stim)
  /\ cleared' = cleared + 1
  /\ spc' = "check"
  /\ UNCHANGED << mainVars, end_stream, stim_stream, stim_p, bgVars >>
  /\ UNCHANGED << playbacks, completed, freshSets, setsInWrite, pend >>

\* if end_stream.is_set(): stim_stream.close(); p.terminate(); break
StimCheckEnd ==
  /\ spc = "check"
  /\ UNCHANGED fnVars
  /\ IF end_stream
     THEN /\ stim_stream' = FALSE
          /\ stim_p' = FALSE
          /\ spc' = "done"
     ELSE /\ spc' = "wait"
          /\ UNCHANGED << stim_stream, stim_p >>
  /\ UNCHANGED << mainVars, play_stim, end_stream, bgVars, ghostVars >>

----------------------------------------------------------------------------
\* Background worker: play_sound

\* p = pyaudio.PyAudio(); cont_stream = p.open(...)
BgOpen ==
  /\ bpc = "init"
  /\ UNCHANGED fnVars
  /\ cont_p' = TRUE /\ cont_stream' = TRUE
  /\ bpc' = "check"
  /\ UNCHANGED << mainVars, play_stim, end_stream, stimVars, ghostVars >>

\* while not end_stream.is_set(): cont_stream.write(background) begins
BgLoop ==
  /\ bpc = "check"
  /\ UNCHANGED fnVars
  /\ bpc' = IF end_stream THEN "stop" ELSE "write"
  /\ UNCHANGED << mainVars, play_stim, end_stream, stimVars, cont_stream, cont_p, ghostVars >>

\* cont_stream.write(background) returns
BgWriteDone ==
  /\ bpc = "write"
  /\ UNCHANGED fnVars
  /\ bpc' = "check"
  /\ UNCHANGED << mainVars, play_stim, end_stream, stimVars, cont_stream, cont_p, ghostVars >>

\* cont_stream.stop_stream(); cont_stream.close(); p.terminate(); return
BgStop ==
  /\ bpc = "stop"
  /\ UNCHANGED fnVars
  /\ cont_stream' = FALSE /\ cont_p' = FALSE
  /\ bpc' = "done"
  /\ UNCHANGED << mainVars, play_stim, end_stream, stimVars, ghostVars >>

----------------------------------------------------------------------------
Next ==
  \/ CheckArgs \/ OpenCap \/ OpenWriter \/ Calibrate
  \/ SelectROI \/ SelectRect \/ StartWorkers
  \/ ReadFail \/ Frame \/ WaitKey
  \/ Release \/ TerminateStim \/ TerminateSound
  \/ StimInit \/ StimWait \/ StimOpenWrite \/ StimWriteDone
  \/ StimClose \/ StimClear \/ StimCheckEnd
  \/ BgOpen \/ BgLoop \/ BgWriteDone \/ BgStop

Spec == Init /\ [][Next]_vars

TypeOK ==
  /\ mpc \in {"argv", "open_cap", "open_writer", "calibrate", "select_roi",
              "select_rect", "start_workers", "read", "waitkey", "release",
              "terminate_stim", "terminate_sound", "finished", "exited", "crashed"}
  /\ spc \in {"unstarted", "init", "wait", "open", "write", "close", "clear",
              "check", "done", "killed"}
  /\ bpc \in {"unstarted", "init", "check", "write", "stop", "done", "killed"}
  /\ in_roi \in {Unassigned, PyTrue, PyFalse}
  /\ prev_state \in {Unassigned, PyTrue, PyFalse}
  /\ Len(frames) <= MaxFrames
  /\ pend \in {"none", "idle", "afterwrite"}

----------------------------------------------------------------------------
\* Derived views of the frame log

\* Containment state carried into frame i: the state of the last
\* successfully tracked frame before it, Unassigned when there is none.
RECURSIVE Carried(_)
Carried(i) ==
  IF i <= 1 THEN Unassigned
  ELSE IF frames[i - 1].res # "fail" THEN frames[i - 1].res
  ELSE Carried(i - 1)

States == [i \in 1..Len(frames) |-> frames[i].res]
TrigAt == {i \in 1..Len(frames) : frames[i].trig}
NumSets == Cardinality(TrigAt)
SixStates == << PyFalse, PyFalse, PyTrue, PyTrue, PyFalse, PyTrue >>

----------------------------------------------------------------------------
\* C1: play_stim.set() runs on a frame exactly when that frame's state is
\* inside and the state carried over from the previous frame is outside;
\* for [outside, outside, inside, inside, outside, inside] it runs exactly at
\* the zero-indexed positions 2 and 5 (frames 3 and 6).
C1_EdgeOnRisingOnly ==
  /\ \A i \in 1..Len(frames) :
       frames[i].trig <=> (frames[i].res = PyTrue /\ Carried(i) = PyFalse)
  /\ States = SixStates => TrigAt = {3, 6}

C1_Witness == States = SixStates /\ TrigAt = {3, 6} /\ mpc = "waitkey"

\* C2: the edge test never reads an unassigned prev_state, and a first
\* successfully tracked frame that is inside raises the trigger.
C2_PrevStateAssignedBeforeRead ==
  /\ exc # "NameError: prev_state"
  /\ \A i \in 1..Len(frames) :
       (frames[i].res = PyTrue /\ Carried(i) = Unassigned) => frames[i].trig

\* C3: a frame whose tracker update fails raises no trigger and does not end
\* the session, wherever it is in the stream.
C3_TrackerFailureRecoverable ==
  \A i \in 1..Len(frames) :
    frames[i].res = "fail" =>
      /\ ~frames[i].trig
      /\ ~(i = Len(frames) /\ mpc = "crashed")

\* C4: at most one stimulus playback is in flight, and triggers are not
\* queued: the event is set throughout a playback, so a set() made then is
\* never a new trigger, and every playback has its own set() that found the
\* event clear.
C4_NoQueuedTriggers ==
  /\ playbacks - completed \in {0, 1}
  /\ spc \in {"open", "write", "close", "clear"} => play_stim
  /\ playbacks <= freshSets

C4_Witness ==
  setsInWrite >= 2 /\ completed = 1 /\ spc = "wait" /\ ~play_stim /\ playbacks = 1

\* C5 as stated: while the session runs, a set() made when no stimulus write
\* is in flight stays pending until a write starts for it.
C5_OnlyInWriteDropped ==
  (pend # "none" /\ ~end_stream /\ mpc \in {"read", "waitkey"}) => play_stim

\* C5 amended: a set() made outside the interval from the start of a stimulus
\* write to the worker's play_stim.clear() stays pending until a write
\* starts for it.
C5_OutsideWriteToClearKept == pend = "idle" => play_stim

C5_Witness ==
  pend = "idle" /\ completed >= 1 /\ spc = "wait" /\ play_stim /\ ~end_stream

\* C6: play_stim.set() on an event that is already set changes nothing, and
\* the sets made before one clear cause one playback: playbacks never exceed
\* the sets that found the event clear.
C6_SetIdempotent ==
  /\ [](playbacks <= freshSets)
  /\ [][(play_stim /\ Len(frames') > Len(frames) /\ frames'[Len(frames')].trig)
          => /\ play_stim' = play_stim
             /\ freshSets' = freshSets
             /\ UNCHANGED << end_stream, stimVars, bgVars, playbacks, completed >>]_vars

C6_Witness ==
  NumSets >= 3 /\ freshSets = 1 /\ playbacks = 1 /\ spc = "check" /\ ~play_stim

\* C7: once end_stream is set it stays set, and only the ESC branch of the
\* tracking loop changes it.
C7_EndStreamSticky ==
  [][/\ end_stream => end_stream'
     /\ end_stream' # end_stream => (mpc = "waitkey" /\ mpc' = "release")]_vars

C7_Witness == end_stream /\ mpc = "finished" /\ spc = "done" /\ completed >= 1

\* C8: the background worker never stops running while its device is open.
C8_BackgroundReleasesDevice ==
  bpc \in {"done", "killed"} => (~cont_stream /\ ~cont_p)

\* C9: once the session has been ended with end_stream, the stimulus worker
\* has left its loop by itself with its device released.
C9_StimExitsOnEnd ==
  (end_stream /\ mpc = "finished") => (spc = "done" /\ ~stim_stream /\ ~stim_p)

\* C10: the main process releases the video source, the writer and the csv
\* file only after both audio workers have exited on their own.
C10_CooperativeShutdown ==
  (cap = "released" \/ mpc = "finished") => (spc = "done" /\ bpc = "done")

----------------------------------------------------------------------------
\* Derived views of centroid.csv

\* The frames of the log on which tracker.update succeeded.
Tracked == SelectSeq(frames, LAMBDA f : f.res # "fail")

\* Outside-to-inside transitions between consecutive records.
CsvTransitions ==
  Cardinality({i \in 1..(Len(csv) - 1) :
                 csv[i][3] = PyFalse /\ csv[i + 1][3] = PyTrue})

\* The records start outside, go inside once and stay inside.
OnceInside ==
  \E k \in 1..(Len(csv) - 1) :
    \A i \in 1..Len(csv) : csv[i][3] = IF i <= k THEN PyFalse ELSE PyTrue

----------------------------------------------------------------------------
\* C11: on every path out of the frame loop, end_stream is set before
\* either audio worker stops running.
C11_EndSignalOnlyStop ==
  (spc \in {"done", "killed"} \/ bpc \in {"done", "killed"}) => end_stream

\* C12: every stimulus write that was started has returned and has been
\* followed by play_stim.clear() by the time the stimulus worker stops.
C12_PlaybackNotInterruptible ==
  spc \in {"done", "killed"} => (completed = playbacks /\ cleared = completed)

\* C13: when the centroid starts outside, moves inside once and stays inside
\* until the session has ended, exactly one stimulus buffer has been played
\* to completion and the records hold exactly one outside-to-inside
\* transition.
C13_EndToEndOnePlayback ==
  (mpc = "finished" /\ OnceInside) =>
    (playbacks = 1 /\ completed = 1 /\ CsvTransitions = 1)

\* C14: the tracking loop never waits on a signal (its next step is always
\* enabled) and never clears one; play_stim is cleared only by the stimulus
\* worker's clear step, after a stimulus write has returned.
C14_LoopOnlySetsSignals ==
  /\ [](mpc = "read" => ENABLED ReadFail)
  /\ [](mpc = "waitkey" => ENABLED WaitKey)
  /\ [][/\ (play_stim /\ ~play_stim') =>
             /\ spc = "clear" /\ spc' = "check"
             /\ UNCHANGED mainVars
             /\ completed = playbacks /\ completed >= 1
        /\ end_stream => end_stream']_vars

C14_Witness ==
  cleared = 1 /\ spc = "check" /\ ~play_stim /\ mpc = "read" /\ NumSets = 2

\* C15: no audio worker is started unless the source and the writer were
\* opened and calibrate has returned twice; calibrate is not called before
\* both are open; a run that exits at startup has calibrated nothing and
\* started no worker.
C15_StartupOrdering ==
  /\ (spc # "unstarted" \/ bpc # "unstarted") =>
       (cap # "none" /\ outputVid # "none" /\ calibrated = 2)
  /\ calibrated >= 1 => (cap # "none" /\ outputVid # "none")
  /\ mpc = "exited" =>
       (calibrated = 0 /\ spc = "unstarted" /\ bpc = "unstarted")

C15_Witness ==
  /\ mpc = "read" /\ spc = "init" /\ bpc = "init"
  /\ calibrated = 2 /\ cap = "open" /\ outputVid = "open"

\* C16: the workers are never started, and the frame loop never entered,
\* with the tracker uninitialised or the trigger region unset.
C16_RegionsSetBeforeRunning ==
  (spc # "unstarted" \/ bpc # "unstarted" \/ mpc \in {"read", "waitkey"}) =>
    (tracker_init /\ rect # None)

\* C19: centroid.csv holds one record per frame on which tracker.update
\* succeeded, in order, each with that frame's own containment state.
C19_OneRecordPerTrackedFrame ==
  /\ Len(csv) = Len(Tracked)
  /\ \A k \in 1..Len(csv) : csv[k][3] = Tracked[k].res

C19_Witness ==
  Len(frames) = 4 /\ Len(csv) = 2 /\ csv[1][3] # csv[2][3] /\ mpc = "waitkey"

\* C20: a failed frame leaves the carried state as it was: prev_state is
\* always the state of the last successfully tracked frame, so inside, fail,
\* inside raises no trigger on recovery and outside, fail, inside raises one.
C20_FailedFrameKeepsCarriedState ==
  /\ (Len(frames) >= 1 /\ mpc # "crashed") =>
       prev_state = Carried(Len(frames) + 1)
  /\ \A i \in 2..(Len(frames) - 1) :
       frames[i].res = "fail" =>
         /\ ~frames[i].trig
         /\ (frames[i - 1].res = PyTrue /\ frames[i + 1].res = PyTrue)
              => ~frames[i + 1].trig
         /\ (frames[i - 1].res = PyFalse /\ frames[i + 1].res = PyTrue)
              => frames[i + 1].trig

C20_Witness ==
  /\ States = << PyFalse, "fail", PyTrue, "fail", PyTrue >>
  /\ TrigAt = {3}
  /\ mpc = "waitkey"

----------------------------------------------------------------------------
\* point_inside on its own: one call on every rectangle with w, h > 0 and
\* every point of a grid around it.

PtRects ==
  {<< x, y, w, h >> : x \in 0..MaxCoord, y \in 0..MaxCoord,
                      w \in 1..MaxCoord, h \in 1..MaxCoord}
PtPoints == (0..(2 * MaxCoord + 1)) \X (0..(2 * MaxCoord + 1))

InitPoint ==
  /\ ProgInit
  /\ cal = NoCalibrate
  /\ pt_call \in [rect : PtRects, point : PtPoints, out : {"none"}]

\* in_roi, color = point_inside(rect, center)
CallPointInside ==
  /\ pt_call.out = "none"
  /\ pt_call' = [pt_call EXCEPT
                   !.out = PyStr(point_inside(pt_call.rect, pt_call.point))]
  /\ UNCHANGED << progVars, cal >>

NextPoint == CallPointInside

SpecPoint == InitPoint /\ [][NextPoint]_vars

\* C17: point_inside returns inside exactly on the closed rectangle
\* x <= px <= x + w, y <= py <= y + h.
C17_ClosedRegion ==
  pt_call.out # "none" =>
    LET r == pt_call.rect
        pt == pt_call.point
    IN pt_call.out = PyTrue <=>
         /\ r[1] <= pt[1] /\ pt[1] <= r[1] + r[3]
         /\ r[2] <= pt[2] /\ pt[2] <= r[2] + r[4]

\* a call on a point of the right edge that is not a corner
C17_Witness ==
  /\ pt_call.out = PyTrue
  /\ pt_call.point[1] = pt_call.rect[1] + pt_call.rect[3]
  /\ pt_call.rect[2] < pt_call.point[2]
  /\ pt_call.point[2] < pt_call.rect[2] + pt_call.rect[4]

----------------------------------------------------------------------------
\* stim.calibrate on its own.  Operator input is a string of characters;
\* an amplitude is a decimal << m, f >> standing for m / 10^f, with no
\* trailing zero in the fraction.

Digits == {"0", "1", "5"}
InputChars == Digits \cup {".", "-", "x"}

RECURSIVE StringsUpTo(_)
StringsUpTo(n) ==
  IF n = 0 THEN {<< >>}
  ELSE LET shorter == StringsUpTo(n - 1)
       IN shorter \cup {Append(t, c) : t \in shorter, c \in InputChars}

Inputs == StringsUpTo(MaxInputLen)

DigitVal(c) == CASE c = "0" -> 0 [] c = "1" -> 1 [] c = "5" -> 5

RECURSIVE Pow10(_)
Pow10(f) == IF f = 0 THEN 1 ELSE 10 * Pow10(f - 1)

\* the string without its leading sign
Unsigned(str) == IF Len(str) > 0 /\ str[1] = "-" THEN Tail(str) ELSE str

\* float(num) does not raise ValueError: an optional sign, then digits with
\* at most one decimal point and at least one digit.
isfloat(str) ==
  LET body == Unsigned(str)
  IN /\ \A i \in 1..Len(body) : body[i] \in Digits \cup {"."}
     /\ Cardinality({i \in 1..Len(body) : body[i] = "."}) <= 1
     /\ \E i \in 1..Len(body) : body[i] \in Digits

\* the integer written by the digits of a string, the point left out
RECURSIVE Mantissa(_)
Mantissa(body) ==
  IF Len(body) = 0 THEN 0
  ELSE LET front == SubSeq(body, 1, Len(body) - 1)
           last == body[Len(body)]
       IN IF last = "." THEN Mantissa(front)
          ELSE 10 * Mantissa(front) + DigitVal(last)

\* the number of digits after the point
FracDigits(body) ==
  IF \E i \in 1..Len(body) : body[i] = "."
  THEN Len(body) - (CHOOSE i \in 1..Len(body) : body[i] = ".")
  ELSE 0

RECURSIVE Normal(_)
Normal(a) ==
  IF a[2] > 0 /\ a[1] % 10 = 0 THEN Normal(<< a[1] \div 10, a[2] - 1 >>) ELSE a

\* float(user_input) on a string that isfloat accepts
float(str) ==
  LET body == Unsigned(str)
      m == Mantissa(body)
  IN Normal(<< IF Len(str) > 0 /\ str[1] = "-" THEN 0 - m ELSE m,
               FracDigits(body) >>)

\* 0 <= a <= 1
InUnit(a) == 0 <= a[1] /\ a[1] <= Pow10(a[2])

\* base_amp = 0.2 and the literal 0.7 passed by main.py
CalArgs == { << 2, 1 >>, << 7, 1 >> }

InitCal ==
  /\ ProgInit
  /\ pt_call = NoPointCall
  /\ cal \in {[pc |-> "write", init |-> a, amplitude |-> a] : a \in CalArgs}

\* stream.write(wave)
CalWrite ==
  /\ cal.pc = "write"
  /\ cal' = [cal EXCEPT !.pc = "input"]
  /\ UNCHANGED << progVars, pt_call >>

\* user_input = input(...); if not isfloat(user_input): return amplitude;
\* amplitude = float(user_input); wave = noise_generator(...)
CalInput ==
  /\ cal.pc = "input"
  /\ \E user_input \in Inputs :
       cal' = IF ~isfloat(user_input)
              THEN [cal EXCEPT !.pc = "returned"]
              ELSE [cal EXCEPT !.pc = "write", !.amplitude = float(user_input)]
  /\ UNCHANGED << progVars, pt_call >>

NextCal == CalWrite \/ CalInput

SpecCal == InitCal /\ [][NextCal]_vars

\* C18: the value calibrate returns is the initial amplitude or a value in
\* [0, 1]; no input outside [0, 1] is ever taken as the amplitude.
C18_ReturnsInitialOrUnit ==
  /\ cal.pc = "returned" => (cal.amplitude = cal.init \/ InUnit(cal.amplitude))
  /\ cal.pc \in {"write", "input"} =>
       (cal.amplitude = cal.init \/ InUnit(cal.amplitude))

====
